---- MODULE Spec2Model ----
\* Page-replacement simulators of src/main.py: counter_lru_page_replacement
\* and opt_page_replacement, run on one (reference string, memory size) input,
\* next to the Stack-Based LRU that spec section 4.2 describes.
\*
\* Conventions of the translation:
\*   - Python lists are TLA+ sequences, so Python index k is TLA+ index k+1.
\*   - A page identifier is a small natural number.  The source compares the
\*     identifiers with `is`; for the one-character strings the driver feeds
\*     in (and for small integers) CPython's identity coincides with equality,
\*     so the comparison is modelled as equality.
\*   - Python's None is the value None below; an empty LRU slot is NoneFrame.
EXTENDS Integers, Sequences, FiniteSets, TLC

\* ---------------------------------------------------------------- bounds
MaxLen == 6
MaxPage == 2
MaxCap == 3
MaxBelow == 1
MaxCalls == 2
MaxCallLen == 4
MaxSweepPage == 3
MaxSweepLen == 5

Pages == 0..MaxPage
Capacities == (0 - MaxBelow)..MaxCap
RefStrings == UNION {[1..n -> Pages] : n \in 0..MaxLen}
SweepStrings == UNION {[1..n -> 0..MaxSweepPage] : n \in 0..MaxSweepLen}
CallStrings == UNION {[1..n -> Pages] : n \in 0..MaxCallLen}

\* The reference string of the textbook example (spec section 8).
Textbook == <<7,0,1,2,0,3,0,4,2,3,0,3,2,1,2,0,1,7,0,1>>

None == 0 - 1
NoneFrame == [num |-> None, TOU |-> None]

VARIABLES
    reference_string,      \* the input sequence (both functions' 1st argument)
    memory_size,           \* the input capacity (both functions' 2nd argument)
    lru_pc,                \* counter LRU: "loop", "done" or "error"
    lru_i,                 \* counter LRU: number of references consumed by the for loop
    lru_memory,            \* counter LRU: the frame table `memory`
    tick,                  \* counter LRU: clock.tick
    lru_page_fault_count,  \* counter LRU: page_fault_count
    lru_result,            \* counter LRU: the returned tuple, <<>> before the return
    stack_pc,              \* stack LRU: "loop", "done" or "error"
    stack_i,               \* stack LRU: number of references consumed
    recency_list,          \* stack LRU: pages from least to most recently used
    stack_fault_count,     \* stack LRU: fault counter
    opt_pc,                \* OPT: "loop", "done" or "error"
    opt_i,                 \* OPT: number of references consumed by the for loop
    reference_str,         \* OPT: the remaining suffix (rebound at line 106)
    opt_memory,            \* OPT: the frame table `memory`
    opt_page_fault_count,  \* OPT: page_fault_count
    opt_result,            \* OPT: the returned tuple, <<>> before the return
    calls,                 \* number of invocations made after the first of each function
    lru_first,             \* what the first counter LRU invocation returned, <<>> before
    opt_first              \* what the first OPT invocation returned, <<>> before

inputVars == <<reference_string, memory_size>>
lruVars == <<lru_pc, lru_i, lru_memory, tick, lru_page_fault_count, lru_result>>
stackVars == <<stack_pc, stack_i, recency_list, stack_fault_count>>
callVars == <<calls, lru_first, opt_first>>
optVars == <<opt_pc, opt_i, reference_str, opt_memory, opt_page_fault_count, opt_result>>
vars == <<reference_string, memory_size,
          lru_pc, lru_i, lru_memory, tick, lru_page_fault_count, lru_result,
          stack_pc, stack_i, recency_list, stack_fault_count,
          opt_pc, opt_i, reference_str, opt_memory, opt_page_fault_count, opt_result,
          calls, lru_first, opt_first>>

\* ------------------------------------------------------- list primitives
\* range(n): empty for n <= 0.
Range(n) == 1..n

\* [None for x in range(memory_size)]
NewMemory(n, empty) == [x \in Range(n) |-> empty]

\* x in lst
In(x, lst) == \E k \in 1..Len(lst) : lst[k] = x

\* lst.index(x): position of the first element equal to x.
Index(lst, x) == CHOOSE k \in 1..Len(lst) : lst[k] = x /\ \A j \in 1..(k - 1) : lst[j] # x

\* lst[1:]
Rest(lst) == IF Len(lst) = 0 THEN lst ELSE Tail(lst)

SetMax(S) == CHOOSE m \in S : \A x \in S : x <= m
SetMin(S) == CHOOSE m \in S : \A x \in S : m <= x

\* The pages held by a counter-LRU frame table / an OPT frame table.
LruResident(mem) == {mem[k].num : k \in 1..Len(mem)} \ {None}
OptResident(mem) == {mem[k] : k \in 1..Len(mem)} \ {None}

\* ------------------------------------------- counter_lru_page_replacement
\* Mutant of Frame: the clock is read after clock.increment().
Frame_AfterIncrement(c, t) == [num |-> c, TOU |-> t + 1]

\* frame = {"#": c, "TOU": clock.tick}
Frame(c, t) == [num |-> c, TOU |-> t]

\* if None in memory: ...  The scan `for f in memory` stops at the first slot that
\* is free (fault, the frame goes into the first free slot) or that holds the
\* page (the slot gets the new frame, no fault).
ScanStop(mem, frame) ==
    CHOOSE k \in 1..Len(mem) :
        /\ mem[k] = NoneFrame \/ mem[k].num = frame.num
        /\ \A j \in 1..(k - 1) : mem[j] # NoneFrame /\ mem[j].num # frame.num

\* Mutant of NotFullBranch: a free slot is taken, and a fault counted, without
\* looking for the page among the occupied slots.
NotFullBranch_NoScan(mem, frame) ==
    [memory |-> [mem EXCEPT ![Index(mem, NoneFrame)] = frame], fault |-> 1, ok |-> TRUE]

\* Mutant of NotFullBranch: a new page goes into the last free slot.
NotFullBranch_LastFree(mem, frame) ==
    LET f == mem[ScanStop(mem, frame)] IN
    IF f = NoneFrame
    THEN [memory |-> [mem EXCEPT ![SetMax({k \in 1..Len(mem) : mem[k] = NoneFrame})] = frame],
          fault |-> 1, ok |-> TRUE]
    ELSE [memory |-> [mem EXCEPT ![Index(mem, f)] = frame], fault |-> 0, ok |-> TRUE]

NotFullBranch(mem, frame) ==
    LET f == mem[ScanStop(mem, frame)] IN
    IF f = NoneFrame
    THEN [memory |-> [mem EXCEPT ![Index(mem, NoneFrame)] = frame], fault |-> 1, ok |-> TRUE]
    ELSE [memory |-> [mem EXCEPT ![Index(mem, f)] = frame], fault |-> 0, ok |-> TRUE]

\* Mutant of RefreshLoaded: the resident frame is found but not replaced.
RefreshLoaded_KeepAge(mem, frame, k) == mem

\* for f in memory: if f["#"] is frame["#"]: memory[memory.index(f)] = frame
\* (no break: the scan visits every slot, of the list as it then is).
RECURSIVE RefreshLoaded(_, _, _)
RefreshLoaded(mem, frame, k) ==
    IF k > Len(mem) THEN mem
    ELSE IF mem[k].num = frame.num
         THEN RefreshLoaded([mem EXCEPT ![Index(mem, mem[k])] = frame], frame, k + 1)
         ELSE RefreshLoaded(mem, frame, k + 1)

\* Mutant of Loaded: the frame is looked up with `frame in memory`, which
\* compares the time of use as well as the page.
Loaded_WithAge(mem, frame) == In(frame, mem)

\* loaded: some visited slot held the page.
Loaded(mem, frame) == \E k \in 1..Len(mem) : mem[k].num = frame.num

\* Mutant of OldestFrame: the comparison is reversed, the newest frame is found.
RECURSIVE OldestFrame_Newest(_, _, _)
OldestFrame_Newest(mem, k, oldest) ==
    IF k > Len(mem) THEN oldest
    ELSE IF mem[k].TOU > oldest.TOU
         THEN OldestFrame_Newest(mem, k + 1, mem[k])
         ELSE OldestFrame_Newest(mem, k + 1, oldest)

\* The scan for the oldest frame: oldest_frame starts as the first slot and is
\* replaced by a slot with a strictly smaller time of use.
RECURSIVE OldestFrame(_, _, _)
OldestFrame(mem, k, oldest) ==
    IF k > Len(mem) THEN oldest
    ELSE IF mem[k].TOU < oldest.TOU
         THEN OldestFrame(mem, k + 1, mem[k])
         ELSE OldestFrame(mem, k + 1, oldest)

\* Mutant of FullBranch: the index of the oldest frame is never taken, so the
\* first slot is the one replaced.
FullBranch_FirstSlot(mem, frame) ==
    IF Loaded(mem, frame)
    THEN [memory |-> RefreshLoaded(mem, frame, 1), fault |-> 0, ok |-> TRUE]
    ELSE IF Len(mem) = 0
         THEN [memory |-> mem, fault |-> 0, ok |-> FALSE]
         ELSE [memory |-> [mem EXCEPT ![1] = frame], fault |-> 1, ok |-> TRUE]

\* The else branch of `if None in memory`.  With an empty table, index stays 0
\* and memory[0] = frame raises IndexError before the fault is counted.
FullBranch(mem, frame) ==
    IF Loaded(mem, frame)
    THEN [memory |-> RefreshLoaded(mem, frame, 1), fault |-> 0, ok |-> TRUE]
    ELSE IF Len(mem) = 0
         THEN [memory |-> mem, fault |-> 0, ok |-> FALSE]
         ELSE [memory |-> [mem EXCEPT ![Index(mem, OldestFrame(mem, 2, mem[1]))] = frame],
               fault |-> 1, ok |-> TRUE]

\* The body of `for c in reference_string`, after the frame is built.
LruReference(mem, frame) ==
    IF In(NoneFrame, mem) THEN NotFullBranch(mem, frame) ELSE FullBranch(mem, frame)

\* The tuple that line 87 returns.
LruReturnValue == <<Len(reference_string), memory_size, lru_page_fault_count>>

\* ------------------------------------------------- Stack-Based LRU (4.2)
Without(lst, x) == SelectSeq(lst, LAMBDA y : y # x)

StackReference(lst, r, capacity) ==
    IF In(r, lst) THEN [list |-> Append(Without(lst, r), r), fault |-> 0]
    ELSE IF Len(lst) < capacity THEN [list |-> Append(lst, r), fault |-> 1]
    ELSE [list |-> Append(Rest(lst), r), fault |-> 1]

StackResident(lst) == {lst[k] : k \in 1..Len(lst)}

\* --------------------------------------------------- opt_page_replacement
\* The scan `for p in memory` of the replace branch: the first slot whose page
\* does not occur in the remaining suffix, 0 when every page occurs in it.
NotUsedAgain(mem, suffix) ==
    IF \E k \in 1..Len(mem) : ~In(mem[k], suffix)
    THEN CHOOSE k \in 1..Len(mem) :
            ~In(mem[k], suffix) /\ \A j \in 1..(k - 1) : In(mem[j], suffix)
    ELSE 0

\* rank_dict after a scan that did not break: page -> index of its next use.
RankDict(mem, suffix) == [p \in {mem[k] : k \in 1..Len(mem)} |-> Index(suffix, p) - 1]

\* Mutant of LeastActive: the key with the largest rank, max(rank_dict,
\* key=rank_dict.get).
LeastActive_ByRank(rank_dict) ==
    CHOOSE p \in DOMAIN rank_dict : \A q \in DOMAIN rank_dict : rank_dict[q] <= rank_dict[p]

\* least_active = max(rank_dict): the largest KEY of the dictionary.
LeastActive(rank_dict) == SetMax(DOMAIN rank_dict)

\* The replace branch (lines 113-130); the fault is counted first.  With an
\* empty table max() of the empty rank_dict raises ValueError.
ReplaceFrame(mem, page, suffix) ==
    LET k == NotUsedAgain(mem, suffix) IN
    IF k # 0
    THEN [memory |-> [mem EXCEPT ![Index(mem, mem[k])] = page], ok |-> TRUE]
    ELSE IF Len(mem) = 0
         THEN [memory |-> mem, ok |-> FALSE]
         ELSE [memory |-> [mem EXCEPT ![Index(mem, LeastActive(RankDict(mem, suffix)))] = page],
               ok |-> TRUE]

\* Mutant of OptReference: the fault is counted before the residency test.
OptReference_CountFirst(mem, page, suffix) ==
    IF In(page, mem) THEN [memory |-> mem, fault |-> 1, ok |-> TRUE]
    ELSE IF In(None, mem)
         THEN [memory |-> [mem EXCEPT ![Index(mem, None)] = page], fault |-> 1, ok |-> TRUE]
         ELSE LET r == ReplaceFrame(mem, page, suffix) IN
              [memory |-> r.memory, fault |-> 1, ok |-> r.ok]

\* The body of `for page in reference_str`, suffix being reference_str[1:].
OptReference(mem, page, suffix) ==
    IF In(page, mem) THEN [memory |-> mem, fault |-> 0, ok |-> TRUE]
    ELSE IF In(None, mem)
         THEN [memory |-> [mem EXCEPT ![Index(mem, None)] = page], fault |-> 1, ok |-> TRUE]
         ELSE LET r == ReplaceFrame(mem, page, suffix) IN
              [memory |-> r.memory, fault |-> 1, ok |-> r.ok]

\* Mutant of OptReturnValue: the length of the consumed string is returned.
OptReturnValue_Suffix == <<Len(reference_str), memory_size, opt_page_fault_count>>

\* The tuple that line 131 returns: the length is the unmodified string's.
OptReturnValue == <<Len(reference_string), memory_size, opt_page_fault_count>>

\* counter_lru_page_replacement as a function: its locals after the first k
\* references of s with c frames (lines 44-86, c >= 1).
RECURSIVE LruRun(_, _, _)
LruRun(s, c, k) ==
    IF k = 0
    THEN [memory |-> NewMemory(c, NoneFrame), tick |-> 0, page_fault_count |-> 0]
    ELSE LET before == LruRun(s, c, k - 1)
             r == LruReference(before.memory, Frame(s[k], before.tick))
         IN [memory |-> r.memory, tick |-> before.tick + 1,
             page_fault_count |-> before.page_fault_count + r.fault]

\* Mutant of LruLocals: the frame table outlives the invocation (a table
\* created once, outside the function).
LruLocals_Kept(n) == [memory |-> lru_memory, tick |-> 0, page_fault_count |-> 0]

\* The locals a call of counter_lru_page_replacement starts from (lines 44-46).
LruLocals(n) == [memory |-> NewMemory(n, NoneFrame), tick |-> 0, page_fault_count |-> 0]

\* The locals a call of opt_page_replacement starts from (lines 97-104).
OptLocals(s, n) == [memory |-> NewMemory(n, None), page_fault_count |-> 0, reference_str |-> s]

\* ------------------------------------------------------------ the machine
InitWith(strings, sizes) ==
    /\ reference_string \in strings
    /\ memory_size \in sizes
    /\ lru_pc = "loop"
    /\ lru_i = 0
    /\ lru_memory = NewMemory(memory_size, NoneFrame)
    /\ tick = 0
    /\ lru_page_fault_count = 0
    /\ lru_result = <<>>
    /\ stack_pc = "loop"
    /\ stack_i = 0
    /\ recency_list = <<>>
    /\ stack_fault_count = 0
    /\ opt_pc = "loop"
    /\ opt_i = 0
    /\ reference_str = reference_string
    /\ opt_memory = NewMemory(memory_size, None)
    /\ opt_page_fault_count = 0
    /\ opt_result = <<>>
    /\ calls = 0
    /\ lru_first = <<>>
    /\ opt_first = <<>>

Init == InitWith(RefStrings \cup {Textbook}, Capacities)

\* The stack LRU is run side by side with the counter LRU: the counter LRU
\* takes a reference when the stack LRU has caught up (or has rejected the
\* capacity), then the stack LRU takes the same reference.
StackCaughtUp == stack_pc = "error" \/ stack_i = lru_i

\* One iteration of the loop of counter_lru_page_replacement (lines 47-86).
LruStep ==
    /\ lru_pc = "loop"
    /\ lru_i < Len(reference_string)
    /\ StackCaughtUp
    /\ LET frame == Frame(reference_string[lru_i + 1], tick)
           r == LruReference(lru_memory, frame)
       IN /\ tick' = tick + 1
          /\ lru_memory' = r.memory
          /\ lru_page_fault_count' = lru_page_fault_count + r.fault
          /\ lru_i' = IF r.ok THEN lru_i + 1 ELSE lru_i
          /\ lru_pc' = IF r.ok THEN "loop" ELSE "error"
    /\ UNCHANGED <<inputVars, callVars, lru_result, stackVars, optVars>>

\* return len(reference_string), memory_size, page_fault_count (line 87).
LruReturn ==
    /\ lru_pc = "loop"
    /\ lru_i = Len(reference_string)
    /\ StackCaughtUp
    /\ lru_pc' = "done"
    /\ lru_result' = LruReturnValue
    /\ UNCHANGED <<inputVars, callVars, lru_i, lru_memory, tick, lru_page_fault_count, stackVars, optVars>>

\* Spec section 7: capacity < 1 fails, no partial simulation.
StackReject ==
    /\ stack_pc = "loop"
    /\ memory_size < 1
    /\ stack_pc' = "error"
    /\ UNCHANGED <<inputVars, callVars, lruVars, stack_i, recency_list, stack_fault_count, optVars>>

\* One reference of the stack LRU (spec section 4.2, steps 1-3).
StackStep ==
    /\ stack_pc = "loop"
    /\ memory_size >= 1
    /\ stack_i < lru_i
    /\ LET r == StackReference(recency_list, reference_string[stack_i + 1], memory_size)
       IN /\ recency_list' = r.list
          /\ stack_fault_count' = stack_fault_count + r.fault
    /\ stack_i' = stack_i + 1
    /\ UNCHANGED <<inputVars, callVars, lruVars, stack_pc, optVars>>

StackReturn ==
    /\ stack_pc = "loop"
    /\ memory_size >= 1
    /\ lru_pc = "done"
    /\ stack_i = Len(reference_string)
    /\ stack_pc' = "done"
    /\ UNCHANGED <<inputVars, callVars, lruVars, stack_i, recency_list, stack_fault_count, optVars>>

\* The driver calls opt_page_replacement after the LRU call (lines 140-142);
\* here it is called on the same input whether the LRU returned or raised.
LruOver == lru_pc \in {"done", "error"} /\ stack_pc \in {"done", "error"}

\* One iteration of the loop of opt_page_replacement (lines 105-130).
OptStep ==
    /\ LruOver
    /\ opt_pc = "loop"
    /\ opt_i < Len(reference_string)
    /\ LET page == reference_string[opt_i + 1]
           suffix == Rest(reference_str)
           r == OptReference(opt_memory, page, suffix)
       IN /\ reference_str' = suffix
          /\ opt_memory' = r.memory
          /\ opt_page_fault_count' = opt_page_fault_count + r.fault
          /\ opt_i' = IF r.ok THEN opt_i + 1 ELSE opt_i
          /\ opt_pc' = IF r.ok THEN "loop" ELSE "error"
    /\ UNCHANGED <<inputVars, callVars, lruVars, stackVars, opt_result>>

\* return len(unmodified_ref_str), memory_size, page_fault_count (line 131).
OptReturn ==
    /\ LruOver
    /\ opt_pc = "loop"
    /\ opt_i = Len(reference_string)
    /\ opt_pc' = "done"
    /\ opt_result' = OptReturnValue
    /\ UNCHANGED <<inputVars, callVars, lruVars, stackVars, opt_i, reference_str, opt_memory,
                   opt_page_fault_count>>

Next ==
    \/ LruStep
    \/ LruReturn
    \/ StackReject
    \/ StackStep
    \/ StackReturn
    \/ OptStep
    \/ OptReturn

Spec == Init /\ [][Next]_vars

\* ----------------------------------------------------- repeated invocations
\* The driver calls each function again and again (lines 139-144).  Here a
\* function that has returned is called again on the same input, at any time
\* with respect to the other function's run; the result of its first
\* invocation is kept for comparison.
InitCalls == InitWith(CallStrings, Capacities)

\* A further call of counter_lru_page_replacement (line 140), the stack LRU
\* being started again beside it.
LruCall ==
    /\ lru_pc = "done"
    /\ stack_pc \in {"done", "error"}
    /\ calls < MaxCalls
    /\ calls' = calls + 1
    /\ lru_first' = IF lru_first = <<>> THEN lru_result ELSE lru_first
    /\ LET l == LruLocals(memory_size)
       IN /\ lru_memory' = l.memory
          /\ tick' = l.tick
          /\ lru_page_fault_count' = l.page_fault_count
    /\ lru_pc' = "loop"
    /\ lru_i' = 0
    /\ lru_result' = <<>>
    /\ stack_pc' = "loop"
    /\ stack_i' = 0
    /\ recency_list' = <<>>
    /\ stack_fault_count' = 0
    /\ UNCHANGED <<inputVars, optVars, opt_first>>

\* A further call of opt_page_replacement (line 142).
OptCall ==
    /\ opt_pc = "done"
    /\ calls < MaxCalls
    /\ calls' = calls + 1
    /\ opt_first' = IF opt_first = <<>> THEN opt_result ELSE opt_first
    /\ LET l == OptLocals(reference_string, memory_size)
       IN /\ opt_memory' = l.memory
          /\ opt_page_fault_count' = l.page_fault_count
          /\ reference_str' = l.reference_str
    /\ opt_pc' = "loop"
    /\ opt_i' = 0
    /\ opt_result' = <<>>
    /\ UNCHANGED <<inputVars, lruVars, stackVars, lru_first>>

NextCalls ==
    \/ LruStep
    \/ LruReturn
    \/ StackReject
    \/ StackStep
    \/ StackReturn
    \/ OptStep
    \/ OptReturn
    \/ LruCall
    \/ OptCall

SpecCalls == InitCalls /\ [][NextCalls]_vars

\* ------------------------------------------------------- the capacity sweep
\* The driver runs the counter LRU on one reference string with each capacity
\* of range(1, 8) (lines 139-140); here one such run, on strings over one page
\* more, so that tables of two and of three frames both evict.
InitSweep == InitWith(SweepStrings, 1..MaxCap)

NextSweep ==
    \/ LruStep
    \/ LruReturn
    \/ StackStep
    \/ StackReturn

SpecSweep == InitSweep /\ [][NextSweep]_vars

TypeOK ==
    /\ lru_pc \in {"loop", "done", "error"}
    /\ opt_pc \in {"loop", "done", "error"}
    /\ stack_pc \in {"loop", "done", "error"}
    /\ lru_i \in 0..Len(reference_string)
    /\ opt_i \in 0..Len(reference_string)
    /\ tick \in 0..Len(reference_string)
    /\ Len(lru_memory) = Len(opt_memory)

\* ------------------------------------------------------ reference notions
\* The pages of the first k references of s.
Distinct(s, k) == {s[j] : j \in 1..k}

\* The number of positions among the first k of s that hold the first
\* reference or a page other than the one just before.
Changes(s, k) == Cardinality({j \in 1..k : j = 1 \/ s[j] # s[j - 1]})

\* Every <<resident set, faults>> that some demand-paging policy with c frames
\* can be in after the first k references of s: a hit changes nothing, a miss
\* with room loads the page, a miss with a full table evicts any one resident.
RECURSIVE PolicyOutcomes(_, _, _)
PolicyOutcomes(s, c, k) ==
    IF k = 0 THEN {<<{}, 0>>}
    ELSE UNION {
        IF s[k] \in o[1] THEN {o}
        ELSE IF Cardinality(o[1]) < c THEN {<<o[1] \cup {s[k]}, o[2] + 1>>}
        ELSE {<<(o[1] \ {v}) \cup {s[k]}, o[2] + 1>> : v \in o[1]}
        : o \in PolicyOutcomes(s, c, k - 1)}

MinFaults(s, c) == SetMin({o[2] : o \in PolicyOutcomes(s, c, Len(s))})

\* ------------------------------------------------------------- the claims
\* C1: for every sequence and capacity >= 1 the counter LRU and the stack LRU,
\* run side by side, hold the same set of pages and the same fault count after
\* every reference, and the counter LRU returns the stack LRU's fault count.
C1_StackEquivalence ==
    memory_size >= 1 =>
        /\ stack_i = lru_i =>
              /\ LruResident(lru_memory) = StackResident(recency_list)
              /\ lru_page_fault_count = stack_fault_count
        /\ stack_pc = "done" => lru_result[3] = stack_fault_count

\* C1 witness: both have returned, after some eviction and some hit.
C1_Witness ==
    /\ stack_pc = "done"
    /\ lru_pc = "done"
    /\ memory_size >= 1
    /\ lru_result[3] > memory_size
    /\ lru_result[3] < Len(reference_string)

\* C2: with capacity >= 1, a reference processed by either function adds
\* exactly 1 to the fault counter when its page is not resident at that
\* moment, and leaves the counter unchanged when the page is resident.
C2_FaultIffNotResident ==
    [][memory_size >= 1 =>
        /\ lru_i' = lru_i + 1 =>
              lru_page_fault_count' = lru_page_fault_count +
                  (IF reference_string[lru_i + 1] \in LruResident(lru_memory) THEN 0 ELSE 1)
        /\ lru_i' = lru_i => lru_page_fault_count' = lru_page_fault_count
        /\ opt_i' = opt_i + 1 =>
              opt_page_fault_count' = opt_page_fault_count +
                  (IF reference_string[opt_i + 1] \in OptResident(opt_memory) THEN 0 ELSE 1)
        /\ opt_i' = opt_i => opt_page_fault_count' = opt_page_fault_count]_vars

\* C2 witness: both functions have returned with some hits and some faults.
C2_Witness ==
    /\ memory_size >= 1
    /\ opt_pc = "done"
    /\ lru_pc = "done"
    /\ 0 < lru_result[3] /\ lru_result[3] < Len(reference_string)
    /\ 0 < opt_result[3] /\ opt_result[3] < Len(reference_string)
    /\ memory_size < opt_result[3]

\* C3: for every sequence and capacity >= 1, OPT's fault count is at most the
\* counter LRU's.
C3_OptAtMostLru ==
    (memory_size >= 1 /\ lru_pc = "done" /\ opt_pc = "done") => opt_result[3] <= lru_result[3]

\* C4: for every sequence and capacity >= 1, OPT's fault count is the minimum
\* over all demand-paging replacement policies.
C4_OptIsMinimum ==
    (memory_size >= 1 /\ opt_pc = "done") =>
        opt_result[3] = MinFaults(reference_string, memory_size)

\* C5: whenever OPT evicts, the victim does not occur in the remaining suffix,
\* or every resident page occurs in it and the victim's next occurrence is the
\* farthest.
C5_VictimIsFarthest ==
    [][(/\ memory_size >= 1
        /\ opt_i' = opt_i + 1
        /\ ~In(reference_string[opt_i + 1], opt_memory)
        /\ ~In(None, opt_memory))
       => \A v \in OptResident(opt_memory) \ OptResident(opt_memory') :
            \/ ~In(v, reference_str')
            \/ \A p \in OptResident(opt_memory) :
                  /\ In(p, reference_str')
                  /\ Index(reference_str', p) <= Index(reference_str', v)]_vars

\* C6: when the capacity is at least the number of distinct pages of the
\* sequence, the counter LRU's fault count after every reference is the number
\* of distinct pages seen so far, and the returned count is the number of
\* distinct pages of the sequence.
C6_FaultsAreDistinctPages ==
    (memory_size >= 1 /\
     memory_size >= Cardinality(Distinct(reference_string, Len(reference_string)))) =>
        /\ lru_pc # "error"
        /\ lru_page_fault_count = Cardinality(Distinct(reference_string, lru_i))
        /\ lru_pc = "done" =>
              lru_result[3] = Cardinality(Distinct(reference_string, Len(reference_string)))

\* C6 witness: a returned run with repeats, and one of all-distinct pages that
\* fills a table of capacity = sequence length, are both covered; this is the
\* first, with the table left partly free.
C6_Witness ==
    /\ lru_pc = "done"
    /\ memory_size > Cardinality(Distinct(reference_string, Len(reference_string)))
    /\ Cardinality(Distinct(reference_string, Len(reference_string))) > 1
    /\ lru_result[3] < Len(reference_string)

\* C7: for every capacity < 1 and every sequence, the empty one included, both
\* functions fail instead of returning, and count no fault.
C7_RejectsCapacityBelowOne ==
    memory_size < 1 =>
        /\ lru_pc # "done"
        /\ opt_pc # "done"
        /\ lru_page_fault_count = 0
        /\ opt_page_fault_count = 0

\* C8: on the textbook sequence with capacity 3 the counter LRU returns
\* (20, 3, 12).
C8_TextbookLru ==
    (reference_string = Textbook /\ memory_size = 3 /\ lru_pc = "done") =>
        lru_result = <<20, 3, 12>>

\* C8 witness: the counter LRU has returned on the textbook input.
C8_Witness ==
    reference_string = Textbook /\ memory_size = 3 /\ lru_pc = "done"

\* C9: with capacity 1 a reference faults exactly when it is the first or its
\* page differs from the previous reference's, in both functions; the fault
\* count of a non-empty sequence is 1 + the number of such differences.
C9_CapacityOne ==
    memory_size = 1 =>
        /\ lru_pc # "error" /\ opt_pc # "error"
        /\ lru_page_fault_count = Changes(reference_string, lru_i)
        /\ opt_page_fault_count = Changes(reference_string, opt_i)
        /\ lru_pc = "done" => lru_result[3] = Changes(reference_string, Len(reference_string))
        /\ opt_pc = "done" => opt_result[3] = Changes(reference_string, Len(reference_string))

\* C9 witness: both have returned with capacity 1 on a sequence with a repeat
\* right after a page and with a change of page.
C9_Witness ==
    /\ memory_size = 1
    /\ lru_pc = "done" /\ opt_pc = "done"
    /\ 1 < opt_result[3] /\ opt_result[3] < Len(reference_string)
    /\ lru_result[3] = opt_result[3]

\* C10: on the empty sequence with capacity >= 1 both functions return
\* (0, capacity, 0) without error; on every input the first two components of
\* a returned tuple are the length of the whole input and the capacity.
C10_ResultShape ==
    /\ lru_pc = "done" =>
          /\ Len(lru_result) = 3
          /\ lru_result[1] = Len(reference_string)
          /\ lru_result[2] = memory_size
    /\ opt_pc = "done" =>
          /\ Len(opt_result) = 3
          /\ opt_result[1] = Len(reference_string)
          /\ opt_result[2] = memory_size
    /\ (Len(reference_string) = 0 /\ memory_size >= 1) =>
          /\ lru_pc # "error" /\ opt_pc # "error"
          /\ lru_pc = "done" => lru_result = <<0, memory_size, 0>>
          /\ opt_pc = "done" => opt_result = <<0, memory_size, 0>>

\* C10 witness: OPT has returned on a non-empty input, its suffix consumed.
C10_Witness ==
    /\ opt_pc = "done" /\ lru_pc = "done"
    /\ Len(reference_string) > 0
    /\ Len(reference_str) = 0
    /\ memory_size >= 1

\* C10 witness on the empty sequence: both have returned.
C10_WitnessEmpty ==
    /\ opt_pc = "done" /\ lru_pc = "done"
    /\ Len(reference_string) = 0
    /\ memory_size >= 1

\* The position (from 1) of the most recent reference to page p among the
\* first k references of s.
LastUse(s, k, p) == SetMax({j \in 1..k : s[j] = p})

\* Every free slot of mem is followed by free slots only.
FreeIsSuffix(mem, empty) ==
    \A j, k \in 1..Len(mem) : (j < k /\ mem[j] = empty) => mem[k] = empty

Occupied(mem, empty) == Cardinality({k \in 1..Len(mem) : mem[k] # empty})

Smaller(a, b) == IF a <= b THEN a ELSE b

\* C11: with capacity >= 1, in every reachable state of both functions the
\* frame table has exactly capacity slots and no page is held by two slots.
C11_NoDuplicateResidency ==
    memory_size >= 1 =>
        /\ Len(lru_memory) = memory_size
        /\ Len(opt_memory) = memory_size
        /\ \A j, k \in 1..Len(lru_memory) :
              (j # k /\ lru_memory[j].num = lru_memory[k].num) => lru_memory[j] = NoneFrame
        /\ \A j, k \in 1..Len(opt_memory) :
              (j # k /\ opt_memory[j] = opt_memory[k]) => opt_memory[j] = None

\* C11 witness: both have returned with full tables of at least two slots,
\* after evictions and hits.
C11_Witness ==
    /\ memory_size >= 2
    /\ lru_pc = "done" /\ opt_pc = "done"
    /\ ~In(NoneFrame, lru_memory) /\ ~In(None, opt_memory)
    /\ memory_size < lru_result[3] /\ lru_result[3] < Len(reference_string)
    /\ memory_size < opt_result[3] /\ opt_result[3] < Len(reference_string)

\* C12 (as claimed): whenever the counter LRU's table has a free slot when a
\* reference is processed, a free slot is occupied with {r, t} and a fault is
\* counted.
C12_FreeSlotAlwaysFaults ==
    [][(memory_size >= 1 /\ lru_i' = lru_i + 1 /\ In(NoneFrame, lru_memory)) =>
        /\ lru_page_fault_count' = lru_page_fault_count + 1
        /\ \E k \in 1..Len(lru_memory) :
              /\ lru_memory[k] = NoneFrame
              /\ lru_memory' = [lru_memory EXCEPT ![k] = Frame(reference_string[lru_i + 1], tick)]
      ]_vars

\* C12 (amended): with a free slot in the table, a reference to a page that is
\* not resident occupies the first free slot with {r, t} and counts a fault; a
\* reference to a resident page gives its slot the tick t, occupies no free
\* slot and counts no fault; a resident page leaves the table only when no
\* free slot exists.
C12_FreeSlotFaultsUnlessResident ==
    [][(memory_size >= 1 /\ lru_i' = lru_i + 1) =>
        LET r == reference_string[lru_i + 1] IN
        /\ (In(NoneFrame, lru_memory) /\ r \notin LruResident(lru_memory)) =>
              /\ lru_page_fault_count' = lru_page_fault_count + 1
              /\ lru_memory' = [lru_memory EXCEPT ![Index(lru_memory, NoneFrame)] = Frame(r, tick)]
        /\ (In(NoneFrame, lru_memory) /\ r \in LruResident(lru_memory)) =>
              /\ lru_page_fault_count' = lru_page_fault_count
              /\ Occupied(lru_memory', NoneFrame) = Occupied(lru_memory, NoneFrame)
              /\ \E k \in 1..Len(lru_memory) :
                    /\ lru_memory[k].num = r
                    /\ lru_memory' = [lru_memory EXCEPT ![k] = Frame(r, tick)]
        /\ ~(LruResident(lru_memory) \subseteq LruResident(lru_memory')) =>
              ~In(NoneFrame, lru_memory)
      ]_vars

\* C12 witness: the counter LRU has returned with a free slot left after a
\* repeated reference.
C12_Witness ==
    /\ memory_size >= 1
    /\ lru_pc = "done"
    /\ In(NoneFrame, lru_memory)
    /\ 0 < lru_result[3] /\ lru_result[3] < Len(reference_string)

\* C14: on a miss with a full table the counter LRU overwrites, with {r, t},
\* the slot of minimum time of use, which holds the page whose most recent
\* reference is the earliest; every other slot is unchanged.
C14_EvictsLeastRecentlyUsed ==
    [][(/\ memory_size >= 1
        /\ lru_i' = lru_i + 1
        /\ ~In(NoneFrame, lru_memory)
        /\ reference_string[lru_i + 1] \notin LruResident(lru_memory))
       => \E k \in 1..Len(lru_memory) :
            /\ \A j \in 1..Len(lru_memory) :
                  /\ lru_memory[k].TOU <= lru_memory[j].TOU
                  /\ LastUse(reference_string, lru_i, lru_memory[k].num)
                        <= LastUse(reference_string, lru_i, lru_memory[j].num)
            /\ lru_memory' = [lru_memory EXCEPT ![k] = Frame(reference_string[lru_i + 1], tick)]
            /\ lru_page_fault_count' = lru_page_fault_count + 1
      ]_vars

\* C14 witness: the counter LRU has evicted: more faults than slots, with at
\* least two slots to choose from.
C14_Witness ==
    /\ memory_size >= 2
    /\ lru_pc = "loop"
    /\ lru_page_fault_count > memory_size + 1

\* C15: after k references the clock is k, every resident entry's time of use
\* is the 0-based position of the most recent reference to its page, and the
\* stored ticks are pairwise distinct and less than the clock (in every state
\* of a run that has not raised).
C15_ClockAndTimeOfUse ==
    lru_pc # "error" =>
        /\ tick = lru_i
        /\ \A k \in 1..Len(lru_memory) :
              lru_memory[k] # NoneFrame =>
                  /\ lru_memory[k].num \in Distinct(reference_string, lru_i)
                  /\ lru_memory[k].TOU = LastUse(reference_string, lru_i, lru_memory[k].num) - 1
                  /\ lru_memory[k].TOU < tick
        /\ \A j, k \in 1..Len(lru_memory) :
              (j # k /\ lru_memory[j] # NoneFrame /\ lru_memory[k] # NoneFrame) =>
                  lru_memory[j].TOU # lru_memory[k].TOU

\* C15 witness: the counter LRU has returned after hits and evictions, a
\* slot holding the last reference's tick.
C15_Witness ==
    /\ lru_pc = "done"
    /\ memory_size >= 2
    /\ tick = Len(reference_string)
    /\ memory_size < lru_result[3] /\ lru_result[3] < tick
    /\ \E k \in 1..Len(lru_memory) : lru_memory[k].TOU = tick - 1

\* C16: when the referenced page is resident, the counter LRU changes only the
\* time of use of the slot that holds it, to the current tick; the fault count
\* is unchanged.
C16_HitOnlyRefreshesTick ==
    [][(/\ lru_i' = lru_i + 1
        /\ reference_string[lru_i + 1] \in LruResident(lru_memory))
       => /\ lru_page_fault_count' = lru_page_fault_count
          /\ \E k \in 1..Len(lru_memory) :
                /\ lru_memory[k].num = reference_string[lru_i + 1]
                /\ lru_memory' = [lru_memory EXCEPT ![k].TOU = tick]
                /\ lru_memory'[k].TOU # lru_memory[k].TOU
      ]_vars

\* C16 witness: a hit on the first slot happened while a slot was still free,
\* before the run went on to evict.
C16_Witness ==
    /\ memory_size >= 2
    /\ lru_i = 2
    /\ In(NoneFrame, lru_memory)
    /\ lru_page_fault_count = 1
    /\ lru_memory[1].TOU = 1

\* C16 witness with a full table: the last reference was a hit.
C16_WitnessFull ==
    /\ memory_size >= 2
    /\ lru_pc = "loop"
    /\ lru_i = Len(reference_string)
    /\ lru_page_fault_count = memory_size
    /\ memory_size + 1 < lru_i
    /\ Distinct(reference_string, lru_i - 2) = Distinct(reference_string, lru_i)

\* C17: when the referenced page is resident, OPT leaves the frame table and
\* the fault count unchanged; the remaining suffix advances by one position.
C17_OptHitChangesNothing ==
    [][(/\ opt_i' = opt_i + 1
        /\ reference_string[opt_i + 1] \in OptResident(opt_memory))
       => /\ opt_memory' = opt_memory
          /\ opt_page_fault_count' = opt_page_fault_count
          /\ reference_str = SubSeq(reference_string, opt_i + 1, Len(reference_string))
          /\ reference_str' = SubSeq(reference_string, opt_i + 2, Len(reference_string))
      ]_vars

\* C17 witness: OPT has processed a hit: fewer faults than references.
C17_Witness ==
    /\ memory_size >= 1
    /\ opt_pc = "loop"
    /\ 0 < opt_page_fault_count /\ opt_page_fault_count < opt_i
    /\ Len(reference_str) = Len(reference_string) - opt_i

C19_FreeSlotsFormSuffix ==
    /\ [](memory_size >= 1 =>
            /\ FreeIsSuffix(lru_memory, NoneFrame)
            /\ FreeIsSuffix(opt_memory, None)
            /\ lru_pc # "error" /\ opt_pc # "error"
            /\ Occupied(lru_memory, NoneFrame) =
                  Smaller(memory_size, Cardinality(Distinct(reference_string, lru_i)))
            /\ Occupied(opt_memory, None) =
                  Smaller(memory_size, Cardinality(Distinct(reference_string, opt_i))))
    /\ [][memory_size >= 1 =>
            /\ \A k \in 1..Len(lru_memory) :
                  lru_memory[k] # NoneFrame => lru_memory'[k] # NoneFrame
            /\ \A k \in 1..Len(opt_memory) :
                  opt_memory[k] # None => opt_memory'[k] # None]_vars

\* C19 witness: both have returned with a partly filled table after a repeat.
C19_Witness ==
    /\ memory_size >= 3
    /\ lru_pc = "done" /\ opt_pc = "done"
    /\ Occupied(lru_memory, NoneFrame) = 2
    /\ Occupied(opt_memory, None) = 2
    /\ Len(reference_string) > 2

\* C13: a function called again on the same (sequence, capacity), in any
\* order with and in between the other function's invocations, returns what
\* its first invocation returned; every invocation starts from an all-free
\* frame table, a fault count of 0 and (counter LRU) a clock of 0.
C13_InvocationsAreIndependent ==
    /\ (lru_pc = "done" /\ lru_first # <<>>) => lru_result = lru_first
    /\ (opt_pc = "done" /\ opt_first # <<>>) => opt_result = opt_first
    /\ (lru_pc = "loop" /\ lru_i = 0) =>
          /\ lru_memory = [k \in 1..memory_size |-> NoneFrame]
          /\ tick = 0
          /\ lru_page_fault_count = 0
    /\ (opt_pc = "loop" /\ opt_i = 0) =>
          /\ opt_memory = [k \in 1..memory_size |-> None]
          /\ opt_page_fault_count = 0
          /\ reference_str = reference_string

\* C13 witness: each function has been called a second time and has returned
\* again, the runs having evicted.
C13_Witness ==
    /\ memory_size >= 1
    /\ calls = 2
    /\ lru_first # <<>> /\ opt_first # <<>>
    /\ lru_pc = "done" /\ opt_pc = "done"
    /\ lru_result[3] > memory_size
    /\ opt_result[3] > memory_size

\* C20: for all capacities 1 <= c1 <= c2 the counter LRU's fault count with c2
\* frames is at most its fault count with c1 frames, and after every
\* reference the pages resident with c1 frames are resident with c2 frames
\* (c2 being the capacity of the run, c1 every smaller one).
C20_NoBeladyAnomaly ==
    (memory_size >= 1 /\ lru_pc # "error") =>
        \A c1 \in 1..memory_size :
            LET small == LruRun(reference_string, c1, lru_i) IN
            /\ lru_page_fault_count <= small.page_fault_count
            /\ LruResident(small.memory) \subseteq LruResident(lru_memory)
            /\ lru_pc = "done" => lru_result[3] <= small.page_fault_count

\* C20 witness: the run has returned after evicting, and with one frame fewer
\* the same sequence costs strictly more faults.
C20_Witness ==
    /\ memory_size >= 3
    /\ lru_pc = "done"
    /\ lru_result[3] > memory_size
    /\ LruRun(reference_string, memory_size - 1, Len(reference_string)).page_fault_count
          > lru_result[3]
====
